---- MODULE Spec2Model ----
(***************************************************************************)
(* Model of pkg/chunked/compression_linux.go: the two chunked-manifest     *)
(* readers readZstdChunkedManifest and readEstargzChunkedManifest, the     *)
(* ranged blob source they consume, and decodeAndValidateBlob.             *)
(***************************************************************************)
EXTENDS Integers, Sequences, FiniteSets, TLC

(***************************************************************************)
(* Program constants.                                                      *)
(***************************************************************************)
maxTocSize == 52428800

EstargzFooterSize == 51

FooterSizeSupported == 56

ManifestTypeCRFS == 1

ZstdChunkedFrameMagic == <<71, 110, 85, 108, 73, 78, 85, 120>>

ManifestChecksumKey == "io.github.containers.zstd-chunked.manifest-checksum"

ManifestInfoKey == "io.github.containers.zstd-chunked.manifest-position"

TarSplitInfoKey == "io.github.containers.zstd-chunked.tarsplit-position"

TarSplitChecksumKey == "io.github.containers.zstd-chunked.tarsplit-checksum"

TOCJSONDigestAnnotation == "containerd.io/snapshot/stargz/toc.digest"

(***************************************************************************)
(* Bounds of the model.                                                    *)
(***************************************************************************)
\* longest manifest (before compression) that a blob of the model carries
MaxOrigLen == 1

(***************************************************************************)
(* Bytes, strings and the library functions the readers call.              *)
(***************************************************************************)
\* first byte of a zstd frame
ZFrame == 40

NoBytes == <<>>

Repeat(b, n) == [i \in 1..n |-> b]

\* the value of annotations[key]: a missing key reads as the empty string
EmptyString == [alg |-> "", hex |-> 0]

Lookup(annotations, key) ==
    IF key \in DOMAIN annotations THEN annotations[key] ELSE EmptyString

\* an injective stand-in for the hash of a byte string
RECURSIVE Hash(_)
Hash(b) == IF b = <<>> THEN 0 ELSE Hash(SubSeq(b, 1, Len(b) - 1)) * 64 + b[Len(b)] + 1

\* digest.Parse: only "<registered algorithm>:<hex>" parses
DigestParseOk(s) == s.alg = "sha256"

\* Digester().Hash().Write(b); Digester().Digest()
Digest(alg, b) == [alg |-> alg, hex |-> Hash(b)]

\* the zstd frame a writer produces for m, and zstd DecodeAll
ZstdEncode(m) == <<ZFrame>> \o m

ZstdDecodeOk(blob) == blob = <<>> \/ blob[1] = ZFrame

ZstdDecodeAll(blob) == IF blob = <<>> THEN <<>> ELSE Tail(blob)

\* io.ReadFull(stream, buf) with len(buf) = n: the error and the bytes read
ReadFullErr(data, n) ==
    IF Len(data) >= n THEN "nil"
    ELSE IF Len(data) = 0 THEN "EOF" ELSE "unexpected EOF"

ReadFullBuf(data, n) ==
    IF Len(data) >= n THEN SubSeq(data, 1, n) ELSE data \o Repeat(0, n - Len(data))

SscanfOkByCount(s, n) == Len(s) >= n

\* fmt.Sscanf(s, "%d:%d:...") into n unsigned integers: s is the sequence of
\* its colon-separated fields, a field that is no unsigned integer reads -1
SscanfOk(s, n) == Len(s) >= n /\ \A i \in 1..n : s[i] >= 0

\* binary.LittleEndian.Uint64 (the footers of the model keep b[5..8] zero)
LittleEndianUint64(b) ==
    b[1] + 256 * b[2] + 65536 * b[3] + 16777216 * b[4]

RECURSIVE PutUint(_, _)
PutUint(v, n) == IF n = 0 THEN <<>> ELSE <<v % 256>> \o PutUint(v \div 256, n - 1)

PutUint64(v) == PutUint(v, 8)

isZstdChunkedFrameMagicShort(data) ==
    IF Len(data) < 8 THEN FALSE
    ELSE SubSeq(ZstdChunkedFrameMagic, 1, 7) = SubSeq(data, 1, 7)

isZstdChunkedFrameMagic(data) ==
    IF Len(data) < 8 THEN FALSE ELSE ZstdChunkedFrameMagic = SubSeq(data, 1, 8)

\* ImageSourceChunk{Offset: uint64(o), Length: uint64(l)}: a field holds the 64
\* bits of its value, written as the signed integer with the same bits, so a
\* negative number stands for 2^64 plus itself
ImageSourceChunk(o, l) == [Offset |-> o, Length |-> l]

\* strconv.ParseInt(s, 16, 64) of a string of ASCII codes
HexDigit(c) ==
    IF c \in 48..57 THEN c - 48
    ELSE IF c \in 97..102 THEN c - 87
    ELSE IF c \in 65..70 THEN c - 55
    ELSE -1

Unsigned(s) == IF s # <<>> /\ s[1] \in {43, 45} THEN Tail(s) ELSE s

ParseIntOk(s) ==
    /\ Unsigned(s) # <<>>
    /\ \A i \in DOMAIN Unsigned(s) : HexDigit(Unsigned(s)[i]) >= 0
    /\ ~(Len(Unsigned(s)) >= 16 /\ HexDigit(Unsigned(s)[Len(Unsigned(s)) - 15]) >= 8)

\* the value of the first n hex digits of s
RECURSIVE HexValueTo(_, _)
HexValueTo(s, n) == IF n = 0 THEN 0 ELSE HexValueTo(s, n - 1) * 16 + HexDigit(s[n])

HexValue(s) == HexValueTo(s, Len(s))

ParseInt(s) == IF s[1] = 45 THEN 0 - HexValue(Unsigned(s)) ELSE HexValue(Unsigned(s))

\* the position string of an annotation; a missing key reads as ""
InfoLookup(annotations, key) ==
    IF key \in DOMAIN annotations THEN annotations[key] ELSE <<>>

(***************************************************************************)
(* decodeAndValidateBlob: the error it returns and the bytes it returns.   *)
(***************************************************************************)
decodeAndValidateBlobErr(blob, lengthUncompressed, expectedUncompressedChecksum) ==
    IF ~DigestParseOk(expectedUncompressedChecksum) THEN "invalid checksum digest format"
    ELSE IF Digest(expectedUncompressedChecksum.alg, blob) # expectedUncompressedChecksum
         THEN "invalid blob checksum"
    ELSE IF ~ZstdDecodeOk(blob) THEN "zstd: invalid input"
    ELSE "nil"

decodeAndValidateBlob(blob, lengthUncompressed, expectedUncompressedChecksum) ==
    IF decodeAndValidateBlobErr(blob, lengthUncompressed, expectedUncompressedChecksum) = "nil"
    THEN ZstdDecodeAll(blob) ELSE NoBytes

(***************************************************************************)
(* The inputs of a call and the answers of the ranged blob source.         *)
(***************************************************************************)
\* the manifest a writer stored, and its zstd frame
Orig == Repeat(7, MaxOrigLen)

Origs == {Repeat(7, n) : n \in 0..MaxOrigLen}

\* what a stream of the batched fetch may carry
Payloads == Origs \cup {ZstdEncode(m) : m \in Origs}

BadString == [alg |-> "bad", hex |-> 0]

ManifestChecksums ==
    {EmptyString, BadString, Digest("sha256", ZstdEncode(Orig)), Digest("sha256", Orig)}

TarSplitChecksums == {BadString, Digest("sha256", <<ZFrame>>), Digest("sha256", ZstdEncode(Orig))}

Offsets == {1, 2}

Lengths == {MaxOrigLen + 1, maxTocSize, maxTocSize + 1}

UncompressedLengths == {MaxOrigLen, maxTocSize, maxTocSize + 1}

ManifestTypes == {ManifestTypeCRFS, ManifestTypeCRFS + 1}

ManifestInfos ==
    {<<>>, <<1, 2>>, <<1, -1, 1, ManifestTypeCRFS>>}
    \cup {<<o, l, u, t>> : o \in Offsets, l \in Lengths, u \in UncompressedLengths,
                           t \in ManifestTypes}

TarSplitInfos ==
    {<<>>, <<5, -1, 1>>}
    \cup {<<0, 1, 1>>, <<5, 1, 1>>, <<5, MaxOrigLen + 1, MaxOrigLen>>, <<5, maxTocSize + 1, 1>>}

NoAnnotation == [k \in {} |-> EmptyString]

Optional(key, values) == {NoAnnotation} \cup {key :> v : v \in values}

ZstdAnnotations ==
    {a @@ b @@ c @@ d :
        a \in Optional(ManifestChecksumKey, ManifestChecksums),
        b \in Optional(ManifestInfoKey, ManifestInfos),
        c \in Optional(TarSplitInfoKey, TarSplitInfos),
        d \in Optional(TarSplitChecksumKey, TarSplitChecksums)}

BlobSizes == {EstargzFooterSize, FooterSizeSupported, FooterSizeSupported + 4}

\* the native footer a writer stores at the tail of the blob
ZstdFooter(o, l, u, t, magic) ==
    PutUint64(o) \o PutUint64(l) \o PutUint64(u) \o PutUint64(t) \o Repeat(0, 16) \o magic

BadMagic == [ZstdChunkedFrameMagic EXCEPT ![8] = 0]

ZstdFooters ==
    {ZstdFooter(o, l, u, t, m) :
        o \in Offsets, l \in Lengths, u \in UncompressedLengths, t \in ManifestTypes,
        m \in {ZstdChunkedFrameMagic, BadMagic}}

\* what the stream of the footer range may carry: a footer, or a short read
ZstdFooterStreams == ZstdFooters \cup {SubSeq(ZstdFooter(1, 2, 1, 1, ZstdChunkedFrameMagic), 1, 40)}

\* one outcome of the channel: a stream carrying data, or an error
StreamOutcome(rng, data) == [rng |-> rng, err |-> "nil", data |-> data]

ErrorOutcome(rng) == [rng |-> rng, err |-> "fetch failed", data |-> NoBytes]

Outcomes(n, payloads) ==
    {ErrorOutcome(r) : r \in 1..n} \cup {StreamOutcome(r, d) : r \in 1..n, d \in payloads}

\* the outcomes a source sends for n ranges before it closes the channel: at
\* most one per range, in any order
Plans(n, payloads) ==
    LET seqs == UNION {[1..k -> Outcomes(n, payloads)] : k \in 0..n}
        ok(p) == \A i, j \in DOMAIN p : i # j => p[i].rng # p[j].rng
    IN  {p \in seqs : ok(p)}

\* the channel of request number req: each outcome with the id of its stream
Channel(req, plan) ==
    [i \in DOMAIN plan |-> [id |-> <<req, i>>, rng |-> plan[i].rng, err |-> plan[i].err,
                             data |-> plan[i].data]]

Streams(ch) == {ch[i].id : i \in {j \in DOMAIN ch : ch[j].err = "nil"}}

\* the gzip-family footer: 51 bytes, the TOC offset as 16 hex digits at [16,32)
EstargzFooter(hex) ==
    <<31, 139, 8, 4, 0, 0, 0, 0, 0, 255, 26, 0, 83, 71, 22, 0>> \o hex
    \o <<83, 84, 65, 82, 71, 90>> \o <<1, 0, 0, 255, 255>> \o Repeat(0, 8)

\* "%016x" of small offsets, and fields that are no offset
Hex16(v) == Repeat(48, 15) \o <<IF v < 10 THEN 48 + v ELSE 87 + v>>

HexFields ==
    {Hex16(v) : v \in {0, 1, 10}}
    \cup {<<45>> \o Repeat(48, 14) \o <<49>>, Repeat(102, 16), Repeat(48, 15) \o <<103>>}

\* what the stream of the footer range may carry: a footer, or a short read
EstargzFooterStreams ==
    {EstargzFooter(h) : h \in HexFields}
    \cup {SubSeq(EstargzFooter(Hex16(1)), 1, n) : n \in {10, 32}}

\* the stream of the manifest range: a gzip stream (or not) holding a tar
\* archive, each entry with the size its header declares and the bytes it has
Entry(declared, data) == [Size |-> declared, data |-> data]

GzipTar(entries) == [gzip |-> TRUE, entries |-> entries]

EstargzPayloads ==
    {[gzip |-> FALSE, entries |-> <<>>], GzipTar(<<>>),
     GzipTar(<<Entry(MaxOrigLen, Orig)>>),
     GzipTar(<<Entry(MaxOrigLen + 1, Orig)>>),
     GzipTar(<<Entry(maxTocSize + 1, Orig)>>)}

TocDigests == {BadString, Digest("sha256", Orig), Digest("sha256", Orig \o <<0>>)}

EstargzAnnotations == Optional(TOCJSONDigestAnnotation, TocDigests)

EstargzBlobSizes == BlobSizes \cup {maxTocSize + EstargzFooterSize + 1}

EstargzFooterPlans == Plans(1, EstargzFooterStreams)

EstargzManifestPlans == Plans(1, EstargzPayloads)

\* the plans of a batched request of the native reader, by its number of ranges
\* (for one range also: its outcome and then a surplus error outcome, which
\* only the drain sees)
ZstdPlans ==
    <<Plans(1, Payloads)
        \cup {Append(p, ErrorOutcome(2)) : p \in {q \in Plans(1, Payloads) : Len(q) = 1}},
      Plans(2, Payloads)>>

(***************************************************************************)
(* State of one call.                                                      *)
(***************************************************************************)
VARIABLES
    pc,             \* where the call stands
    fn,             \* the reader called
    blobSize,       \* argument
    annotations,    \* argument
    requests,       \* the requests made to the source, in order
    chan,           \* streamsOrErrors: the outcomes the source has yet to send
    opened,         \* ids of the streams the source put on a channel
    closed,         \* ids of the streams the reader closed
    footerStream,   \* "none", "open" or "closed": the native footer's stream
    footerData,     \* the bytes the native footer's stream carries
    footer,         \* the footer buffer
    offset, length, lengthUncompressed, manifestType,
    offsetTarSplit, lengthTarSplit, lengthUncompressedTarSplit,
    tarSplitChecksumAnnotation,
    manifest,       \* the bytes readBlob returned for the manifest
    tarSplit,       \* the bytes readBlob returned for the companion
    decodedBlob, decodedTarSplit,
    retErr,         \* the named result of readZstdChunkedManifest
    drainErr,       \* the error ensureAllBlobsDone has to return
    sent,           \* the outcomes the source planned for each channel it returned
    closes,         \* whether the source closes the channel after its outcomes
    tocOffset, size, err, header, manifestUncompressed,   \* readEstargzChunkedManifest
    ret             \* what the call returned

args == <<fn, blobSize, annotations>>

source == <<requests, chan, opened, closed, footerStream, footerData>>

\* what the source decided when it returned a channel
contract == <<sent, closes>>

located == <<offset, length, lengthUncompressed, manifestType>>

locatedTarSplit ==
    <<offsetTarSplit, lengthTarSplit, lengthUncompressedTarSplit, tarSplitChecksumAnnotation>>

blobs == <<manifest, tarSplit, decodedBlob, decodedTarSplit>>

zstd == <<located, locatedTarSplit, blobs, retErr, drainErr>>

estargz == <<tocOffset, size, err, header, manifestUncompressed>>

\* the archive header the gzip-family reader has read, if any
NoHeader == [Size |-> -1]

vars == <<pc, args, source, contract, footer, zstd, estargz, ret>>

\* a []byte that may be nil
Nil == [isNil |-> TRUE, bytes |-> NoBytes]

Bytes(b) == [isNil |-> FALSE, bytes |-> b]

NoResult == [manifest |-> NoBytes, tarSplit |-> NoBytes, offset |-> 0, err |-> "none"]

Result(m, t, o, e) == [manifest |-> m, tarSplit |-> t, offset |-> o, err |-> e]

Failure(e) == Result(NoBytes, NoBytes, 0, e)

Init ==
    /\ pc = "idle"
    /\ fn = "none"
    /\ blobSize = 0
    /\ annotations = NoAnnotation
    /\ requests = <<>>
    /\ chan = <<>>
    /\ opened = {}
    /\ closed = {}
    /\ footerStream = "none"
    /\ footerData = NoBytes
    /\ footer = NoBytes
    /\ offset = 0 /\ length = 0 /\ lengthUncompressed = 0 /\ manifestType = 0
    /\ offsetTarSplit = 0 /\ lengthTarSplit = 0 /\ lengthUncompressedTarSplit = 0
    /\ tarSplitChecksumAnnotation = EmptyString
    /\ manifest = NoBytes /\ tarSplit = NoBytes
    /\ decodedBlob = NoBytes /\ decodedTarSplit = NoBytes
    /\ retErr = "nil"
    /\ drainErr = "nil"
    /\ sent = <<>>
    /\ closes = TRUE
    /\ tocOffset = 0 /\ size = 0 /\ err = "nil" /\ header = NoHeader
    /\ manifestUncompressed = Nil
    /\ ret = NoResult

Request(kind, chunks) == [kind |-> kind, chunks |-> chunks]

\* a return before the deferred drain is installed
ReturnNow(e) ==
    /\ pc' = "done"
    /\ ret' = Failure(e)

(***************************************************************************)
(* readZstdChunkedManifest                                                 *)
(***************************************************************************)
BlobTooSmallStrict(blobSz, footerSize) == blobSz < footerSize

BlobTooSmall(blobSz, footerSize) == blobSz <= footerSize

\* line 185: the checksum the companion is validated against
TarSplitChecksumFromManifestKey(ann) == Lookup(ann, ManifestChecksumKey)

TarSplitChecksum(ann) == Lookup(ann, TarSplitChecksumKey)

\* lines 160-191: the argument checks, the annotations, the footer request
readZstdChunkedManifest(blobSz, ann) ==
    /\ fn' = "zstd" /\ blobSize' = blobSz /\ annotations' = ann
    /\ UNCHANGED <<chan, opened, closed, footerStream, footerData, contract, footer, blobs,
                   retErr, drainErr, estargz>>
    /\ LET footerSize == FooterSizeSupported
           manifestChecksumAnnotation == Lookup(ann, ManifestChecksumKey)
           offsetMetadata == InfoLookup(ann, ManifestInfoKey)
           found == TarSplitInfoKey \in DOMAIN ann
           tarSplitInfoKeyAnnotation == InfoLookup(ann, TarSplitInfoKey)
       IN  IF BlobTooSmall(blobSz, footerSize)
           THEN /\ ReturnNow("blob too small")
                /\ UNCHANGED <<requests, located, locatedTarSplit>>
           ELSE IF manifestChecksumAnnotation = EmptyString
           THEN /\ ReturnNow("manifest checksum annotation not found")
                /\ UNCHANGED <<requests, located, locatedTarSplit>>
           ELSE IF offsetMetadata # <<>>
           THEN IF ~SscanfOk(offsetMetadata, 4)
                THEN /\ ReturnNow("sscanf: input does not match format")
                     /\ UNCHANGED <<requests, located, locatedTarSplit>>
                ELSE /\ offset' = offsetMetadata[1]
                     /\ length' = offsetMetadata[2]
                     /\ lengthUncompressed' = offsetMetadata[3]
                     /\ manifestType' = offsetMetadata[4]
                     /\ UNCHANGED requests
                     /\ IF found
                        THEN IF ~SscanfOk(tarSplitInfoKeyAnnotation, 3)
                             THEN /\ ReturnNow("sscanf: input does not match format")
                                  /\ UNCHANGED locatedTarSplit
                             ELSE /\ offsetTarSplit' = tarSplitInfoKeyAnnotation[1]
                                  /\ lengthTarSplit' = tarSplitInfoKeyAnnotation[2]
                                  /\ lengthUncompressedTarSplit' = tarSplitInfoKeyAnnotation[3]
                                  /\ tarSplitChecksumAnnotation' = TarSplitChecksum(ann)
                                  /\ pc' = "z_locate"
                                  /\ UNCHANGED ret
                        ELSE /\ pc' = "z_locate"
                             /\ UNCHANGED <<locatedTarSplit, ret>>
           ELSE /\ requests' = Append(requests,
                        Request("footer", <<ImageSourceChunk(blobSz - footerSize, footerSize)>>))
                /\ pc' = "z_footer"
                /\ UNCHANGED <<located, locatedTarSplit, ret>>

\* lines 192-214: the answer to the footer request, the footer's fields, the magic
ZstdReadFooter ==
    /\ pc = "z_footer"
    /\ UNCHANGED <<args, requests, chan, opened, closed, contract, locatedTarSplit, blobs,
                   retErr, drainErr, estargz>>
    /\ \/ \* GetBlobAt fails, or the errs channel answers
          /\ ReturnNow("fetch failed")
          /\ UNCHANGED <<footerStream, footerData, footer, located>>
       \/ \E data \in ZstdFooterStreams :
            LET footerSize == FooterSizeSupported
                buf == ReadFullBuf(data, footerSize)
            IN  /\ footerStream' = "open"
                /\ footerData' = data
                /\ footer' = buf
                /\ IF ReadFullErr(data, footerSize) # "nil"
                   THEN /\ ReturnNow(ReadFullErr(data, footerSize))
                        /\ UNCHANGED located
                   ELSE /\ offset' = LittleEndianUint64(SubSeq(buf, 1, 8))
                        /\ length' = LittleEndianUint64(SubSeq(buf, 9, 16))
                        /\ lengthUncompressed' = LittleEndianUint64(SubSeq(buf, 17, 24))
                        /\ manifestType' = LittleEndianUint64(SubSeq(buf, 25, 32))
                        /\ IF ~isZstdChunkedFrameMagic(SubSeq(buf, 49, 56))
                           THEN ReturnNow("invalid magic number")
                           ELSE /\ pc' = "z_locate"
                                /\ UNCHANGED ret

ZstdCall ==
    /\ pc = "idle"
    /\ \E blobSz \in BlobSizes, ann \in ZstdAnnotations :
            readZstdChunkedManifest(blobSz, ann)

ManifestTooBigOffByOne(n) == n > maxTocSize + 1

ManifestTooBig(n) == n > maxTocSize

ZstdChunksUncompressedLength ==
    IF offsetTarSplit > 0
    THEN <<ImageSourceChunk(offset, lengthUncompressed),
           ImageSourceChunk(offsetTarSplit, lengthUncompressedTarSplit)>>
    ELSE <<ImageSourceChunk(offset, lengthUncompressed)>>

ZstdChunksAlwaysTarSplit ==
    <<ImageSourceChunk(offset, length), ImageSourceChunk(offsetTarSplit, lengthTarSplit)>>

\* lines 229-242: the ranges of the batched request
ZstdChunks ==
    IF offsetTarSplit > 0
    THEN <<ImageSourceChunk(offset, length), ImageSourceChunk(offsetTarSplit, lengthTarSplit)>>
    ELSE <<ImageSourceChunk(offset, length)>>

\* lines 217-247: the type and size checks and the batched request
ZstdGetBlobAt ==
    /\ pc = "z_locate"
    /\ UNCHANGED <<args, footerStream, footerData, footer, located, locatedTarSplit, blobs,
                   retErr, drainErr, estargz>>
    /\ IF manifestType # ManifestTypeCRFS
       THEN /\ ReturnNow("invalid manifest type")
            /\ UNCHANGED <<requests, chan, opened, closed, contract>>
       ELSE IF ManifestTooBig(length) \/ ManifestTooBig(lengthUncompressed)
       THEN /\ ReturnNow("manifest too big")
            /\ UNCHANGED <<requests, chan, opened, closed, contract>>
       ELSE /\ requests' = Append(requests, Request("batch", ZstdChunks))
            /\ \/ \* getBlobAt fails
                  /\ ReturnNow("fetch failed")
                  /\ UNCHANGED <<chan, opened, closed, contract>>
               \/ \E plan \in ZstdPlans[Len(ZstdChunks)], c \in BOOLEAN :
                    /\ chan' = Channel(Len(requests'), plan)
                    /\ sent' = Append(sent, chan')
                    /\ closes' = c
                    /\ opened' = opened \cup Streams(chan')
                    /\ UNCHANGED closed
                    /\ pc' = "z_manifest"
                    /\ UNCHANGED ret

readBlobErrClosedAsEOF(ch, len) ==
    IF ch = <<>> THEN "unexpected EOF"
    ELSE IF Head(ch).err # "nil" THEN Head(ch).err
    ELSE ReadFullErr(Head(ch).data, len)

\* lines 256-271, readBlob: the error and the bytes of one receive from ch
readBlobErr(ch, len) ==
    IF ch = <<>> THEN "stream closed"
    ELSE IF Head(ch).err # "nil" THEN Head(ch).err
    ELSE ReadFullErr(Head(ch).data, len)

readBlob(ch, len) ==
    IF readBlobErr(ch, len) = "nil" THEN ReadFullBuf(Head(ch).data, len) ELSE NoBytes

readBlobClosesAfterFullRead(ch, len) ==
    IF readBlobErr(ch, len) = "nil" THEN {Head(ch).id} ELSE {}

\* the streams readBlob closes: the one it received, if it received one
readBlobCloses(ch, len) ==
    IF ch # <<>> /\ Head(ch).err = "nil" THEN {Head(ch).id} ELSE {}

Receive(ch) == IF ch = <<>> THEN ch ELSE Tail(ch)

CanReceiveOutcomeOnly(ch, c) == ch # <<>>

\* a receive returns once an outcome is there or the channel is closed
CanReceive(ch, c) == ch # <<>> \/ c

\* a range loop over the channel ends once the channel is drained and closed
RangeEnds(ch, c) == ch = <<>> /\ CanReceive(ch, c)

DeferredErrOverwrites(e, d) == IF d # "nil" THEN d ELSE e

\* lines 251-253: the drain's error becomes the result only if there is none yet
DeferredErr(e, d) == IF e = "nil" THEN d ELSE e

\* lines 273-281: the manifest is read from the channel, decoded and validated
ZstdReadManifest ==
    /\ pc = "z_manifest"
    /\ CanReceive(chan, closes)
    /\ UNCHANGED <<args, requests, opened, footerStream, footerData, contract, footer, located,
                   locatedTarSplit, tarSplit, decodedTarSplit, drainErr, estargz>>
    /\ chan' = Receive(chan)
    /\ closed' = closed \cup readBlobCloses(chan, length)
    /\ manifest' = readBlob(chan, length)
    /\ LET manifestChecksumAnnotation == Lookup(annotations, ManifestChecksumKey)
           err1 == IF readBlobErr(chan, length) # "nil" THEN readBlobErr(chan, length)
                  ELSE decodeAndValidateBlobErr(manifest', lengthUncompressed,
                                                manifestChecksumAnnotation)
       IN  /\ decodedBlob' = IF err1 = "nil"
                             THEN decodeAndValidateBlob(manifest', lengthUncompressed,
                                                        manifestChecksumAnnotation)
                             ELSE NoBytes
           /\ retErr' = err1
           /\ ret' = IF err1 # "nil" THEN Failure(err1)
                      ELSE IF offsetTarSplit > 0 THEN ret
                      ELSE Result(decodedBlob', NoBytes, offset, "nil")
           /\ pc' = IF err1 = "nil" /\ offsetTarSplit > 0 THEN "z_tarsplit" ELSE "z_drain"

\* lines 282-293: the companion is read from the channel, decoded and validated
ZstdReadTarSplit ==
    /\ pc = "z_tarsplit"
    /\ CanReceive(chan, closes)
    /\ UNCHANGED <<args, requests, opened, footerStream, footerData, contract, footer, located,
                   locatedTarSplit, manifest, decodedBlob, drainErr, estargz>>
    /\ chan' = Receive(chan)
    /\ closed' = closed \cup readBlobCloses(chan, lengthTarSplit)
    /\ tarSplit' = readBlob(chan, lengthTarSplit)
    /\ LET err1 == IF readBlobErr(chan, lengthTarSplit) # "nil"
                  THEN readBlobErr(chan, lengthTarSplit)
                  ELSE decodeAndValidateBlobErr(tarSplit', lengthUncompressedTarSplit,
                                                tarSplitChecksumAnnotation)
       IN  /\ decodedTarSplit' = IF err1 = "nil"
                                 THEN decodeAndValidateBlob(tarSplit', lengthUncompressedTarSplit,
                                                            tarSplitChecksumAnnotation)
                                 ELSE NoBytes
           /\ retErr' = err1
           /\ ret' = IF err1 # "nil" THEN Failure(err1)
                      ELSE Result(decodedBlob, decodedTarSplit', offset, "nil")
           /\ pc' = "z_drain"

\* ensureAllBlobsDone, one turn of its loop: the next outcome is received, a
\* stream is closed, the first error is kept
ensureAllBlobsDone ==
    /\ pc = "z_drain"
    /\ chan # <<>>
    /\ chan' = Tail(chan)
    /\ closed' = IF Head(chan).err = "nil" THEN closed \cup {Head(chan).id} ELSE closed
    /\ drainErr' = IF drainErr = "nil" THEN Head(chan).err ELSE drainErr
    /\ UNCHANGED <<pc, args, requests, opened, footerStream, footerData, contract, footer,
                   located, locatedTarSplit, blobs, retErr, ret, estargz>>

\* lines 249-254: the channel is closed, the deferred call ends and leaves its
\* error in retErr if the return statement left none, the call returns
ZstdReturn ==
    /\ pc = "z_drain"
    /\ RangeEnds(chan, closes)
    /\ pc' = "done"
    /\ retErr' = DeferredErr(retErr, drainErr)
    /\ ret' = [ret EXCEPT !.err = retErr']
    /\ UNCHANGED <<args, source, contract, footer, located, locatedTarSplit, blobs, drainErr,
                   estargz>>

(***************************************************************************)
(* readEstargzChunkedManifest                                              *)
(***************************************************************************)
\* lines 51-62: the size check, the footer buffer, the footer request
readEstargzChunkedManifest(blobSz, ann) ==
    /\ fn' = "estargz" /\ blobSize' = blobSz /\ annotations' = ann
    /\ UNCHANGED <<closed, footerStream, footerData, zstd, tocOffset, size, header,
                   manifestUncompressed>>
    /\ LET footerSize == EstargzFooterSize
       IN  IF BlobTooSmall(blobSz, footerSize)
           THEN /\ ReturnNow("blob too small")
                /\ UNCHANGED <<requests, chan, opened, contract, footer, err>>
           ELSE /\ footer' = Repeat(0, footerSize)
                /\ requests' = Append(requests,
                        Request("footer", <<ImageSourceChunk(blobSz - footerSize, footerSize)>>))
                /\ \/ \* getBlobAt fails
                      /\ ReturnNow("fetch failed")
                      /\ UNCHANGED <<chan, opened, contract, err>>
                   \/ \E plan \in EstargzFooterPlans, c \in BOOLEAN :
                        /\ chan' = Channel(Len(requests'), plan)
                        /\ sent' = Append(sent, chan')
                        /\ closes' = c
                        /\ opened' = opened \cup Streams(chan')
                        /\ err' = "nil"
                        /\ pc' = "e_footer"
                        /\ UNCHANGED ret

EstargzCall ==
    /\ pc = "idle"
    /\ \E blobSz \in EstargzBlobSizes, ann \in EstargzAnnotations :
            readEstargzChunkedManifest(blobSz, ann)

\* lines 64-72, one turn of the loop: the next outcome of the footer request
EstargzReadFooter ==
    /\ pc = "e_footer"
    /\ chan # <<>>
    /\ chan' = Tail(chan)
    /\ LET soe == Head(chan)
           footerSize == EstargzFooterSize
           err1 == IF soe.err = "nil" THEN ReadFullErr(soe.data, footerSize) ELSE err
       IN  /\ footer' = IF soe.err = "nil" THEN ReadFullBuf(soe.data, footerSize) ELSE footer
           /\ closed' = IF soe.err = "nil" THEN closed \cup {soe.id} ELSE closed
           /\ err' = IF soe.err # "nil" /\ err1 = "nil" THEN soe.err ELSE err1
    /\ UNCHANGED <<pc, args, requests, opened, footerStream, footerData, contract, zstd,
                   tocOffset, size, header, manifestUncompressed, ret>>

\* lines 83-97: the TOC offset, the size and its limit, the manifest request
EstargzGetBlobAt ==
    /\ pc = "e_footer"
    /\ RangeEnds(chan, closes)
    /\ UNCHANGED <<args, closed, footerStream, footerData, footer, zstd, header,
                   manifestUncompressed>>
    /\ LET footerSize == EstargzFooterSize
           field == SubSeq(footer, 17, 32)
       IN  IF ~ParseIntOk(field)
           THEN /\ ReturnNow("parse ToC offset")
                /\ UNCHANGED <<requests, chan, opened, contract, tocOffset, size, err>>
           ELSE /\ tocOffset' = ParseInt(field)
                /\ size' = blobSize - footerSize - tocOffset'
                /\ IF ManifestTooBig(size')
                   THEN /\ ReturnNow("manifest too big")
                        /\ UNCHANGED <<requests, chan, opened, contract, err>>
                   ELSE /\ requests' = Append(requests,
                                Request("manifest", <<ImageSourceChunk(tocOffset', size')>>))
                        /\ \/ \* getBlobAt fails
                              /\ ReturnNow("fetch failed")
                              /\ UNCHANGED <<chan, opened, contract, err>>
                           \/ \E plan \in EstargzManifestPlans, c \in BOOLEAN :
                                /\ chan' = Channel(Len(requests'), plan)
                                /\ sent' = Append(sent, chan')
                                /\ closes' = c
                                /\ opened' = opened \cup Streams(chan')
                                /\ err' = "nil"
                                /\ pc' = "e_manifest"
                                /\ UNCHANGED ret

\* lines 103-128: what the closure reading one stream returns
ReadTocErr(data) ==
    IF ~data.gzip THEN "gzip: invalid header"
    ELSE IF data.entries = <<>> THEN "EOF"
    ELSE IF ManifestTooBig(data.entries[1].Size) THEN "manifest too big"
    ELSE ReadFullErr(data.entries[1].data, data.entries[1].Size)

\* lines 114-117: the header the closure has read, if it got that far
ReadHeader(data, old) ==
    IF ~data.gzip \/ data.entries = <<>> THEN old ELSE [Size |-> data.entries[1].Size]

\* lines 119-126: what the closure leaves in manifestUncompressed
ReadToc(data, old) ==
    IF ~data.gzip \/ data.entries = <<>> \/ ManifestTooBig(data.entries[1].Size) THEN old
    ELSE Bytes(ReadFullBuf(data.entries[1].data, data.entries[1].Size))

\* lines 101-135, one turn of the loop: the next outcome of the manifest request
EstargzReadManifest ==
    /\ pc = "e_manifest"
    /\ chan # <<>>
    /\ chan' = Tail(chan)
    /\ LET soe == Head(chan)
       IN  IF soe.err = "nil"
           THEN /\ closed' = closed \cup {soe.id}
                /\ header' = ReadHeader(soe.data, header)
                /\ manifestUncompressed' = ReadToc(soe.data, manifestUncompressed)
                /\ err' = IF err = "nil" THEN ReadTocErr(soe.data) ELSE err
           ELSE /\ err' = IF err = "nil" THEN soe.err ELSE err
                /\ UNCHANGED <<closed, header, manifestUncompressed>>
    /\ UNCHANGED <<pc, args, requests, opened, footerStream, footerData, contract, footer, zstd,
                   tocOffset, size, ret>>

\* lines 136-154: the manifest is there, its digest is the annotation's
EstargzReturn ==
    /\ pc = "e_manifest"
    /\ RangeEnds(chan, closes)
    /\ pc' = "done"
    /\ LET d == Lookup(annotations, TOCJSONDigestAnnotation)
       IN  ret' = IF manifestUncompressed.isNil THEN Failure("manifest not found")
                  ELSE IF ~DigestParseOk(d) THEN Failure("invalid checksum digest format")
                  ELSE IF Digest("sha256", manifestUncompressed.bytes) # d
                       THEN Failure("invalid manifest checksum")
                  ELSE Result(manifestUncompressed.bytes, NoBytes, tocOffset, "nil")
    /\ UNCHANGED <<args, source, contract, footer, zstd, estargz>>

Next ==
    \/ ZstdCall
    \/ EstargzCall
    \/ EstargzReadFooter
    \/ EstargzGetBlobAt
    \/ EstargzReadManifest
    \/ EstargzReturn
    \/ ZstdReadFooter
    \/ ZstdGetBlobAt
    \/ ZstdReadManifest
    \/ ZstdReadTarSplit
    \/ ensureAllBlobsDone
    \/ ZstdReturn

Spec == Init /\ [][Next]_vars

\* The calls whose termination is checked: every path through the two readers
\* with one annotation value per branch of the argument checks, and every
\* plan of the source.
TerminationAnnotations ==
    {a @@ b @@ c @@ d :
        a \in Optional(ManifestChecksumKey, {Digest("sha256", ZstdEncode(Orig))}),
        b \in Optional(ManifestInfoKey,
                       {<<1, 2>>, <<1, MaxOrigLen + 1, MaxOrigLen, ManifestTypeCRFS>>,
                        <<1, maxTocSize + 1, MaxOrigLen, ManifestTypeCRFS>>}),
        c \in Optional(TarSplitInfoKey, {<<5, -1, 1>>, <<5, 1, 1>>}),
        d \in {TarSplitChecksumKey :> Digest("sha256", <<ZFrame>>)}}

ZstdCallTermination ==
    /\ pc = "idle"
    /\ \E blobSz \in BlobSizes, ann \in TerminationAnnotations :
            readZstdChunkedManifest(blobSz, ann)

NextTermination ==
    \/ ZstdCallTermination
    \/ EstargzCall
    \/ EstargzReadFooter
    \/ EstargzGetBlobAt
    \/ EstargzReadManifest
    \/ EstargzReturn
    \/ ZstdReadFooter
    \/ ZstdGetBlobAt
    \/ ZstdReadManifest
    \/ ZstdReadTarSplit
    \/ ensureAllBlobsDone
    \/ ZstdReturn

\* the call runs in one goroutine, which takes its next step whenever it is
\* not blocked on the channel
FairSpec == Init /\ [][NextTermination]_vars /\ WF_vars(NextTermination)

(***************************************************************************)
(* Properties.                                                             *)
(***************************************************************************)
Done == pc = "done"

Succeeded == pc = "done" /\ ret.err = "nil"

HasRequest(kind) == \E i \in DOMAIN requests : requests[i].kind = kind

MetadataAnnotation == InfoLookup(annotations, ManifestInfoKey)

TarSplitAnnotation == InfoLookup(annotations, TarSplitInfoKey)

\* C1: readZstdChunkedManifest returns manifest bytes only if the digest of the
\* decompressed manifest bytes is the digest of the manifest checksum annotation.
C1_DigestOfDecompressedBytes ==
    (fn = "zstd" /\ Succeeded)
        => Digest("sha256", ret.manifest) = Lookup(annotations, ManifestChecksumKey)

\* the source delivered the frame of Orig for the manifest range, the declared
\* uncompressed length is Orig's and the checksum annotation is Orig's digest
ValidBlobOfOrig ==
    /\ fn = "zstd"
    /\ manifest = ZstdEncode(Orig)
    /\ lengthUncompressed = Len(Orig)
    /\ offsetTarSplit = 0
    /\ Lookup(annotations, ManifestChecksumKey) = Digest("sha256", Orig)

\* C2: round trip of the native format: a validly constructed blob whose
\* checksum annotation is the digest of the original manifest bytes is read
\* successfully, and what is returned is those bytes and the declared offset.
C2_RoundTrip ==
    (Done /\ ValidBlobOfOrig)
        => ret = Result(Orig, NoBytes, offset, "nil")

\* C3: drain to completion: when readZstdChunkedManifest returns, every outcome
\* of the batched fetch has been received and every stream the source put on
\* the channel has been closed, on the success path and on every failure path.
C3_DrainToCompletion ==
    (fn = "zstd" /\ Done) => (chan = <<>> /\ opened \subseteq closed)

C3_Witness ==
    /\ fn = "zstd" /\ Done
    /\ ret.err = "unexpected EOF"
    /\ Cardinality(opened) = 2
    /\ closed = opened

TooBigDeclared ==
    fn = "zstd" /\ (length > maxTocSize \/ lengthUncompressed > maxTocSize)

\* the checks that come before the size check have passed
ReachesSizeCheck ==
    /\ manifestType = ManifestTypeCRFS
    /\ MetadataAnnotation # <<>> =>
            (TarSplitInfoKey \in DOMAIN annotations => SscanfOk(TarSplitAnnotation, 3))
    /\ MetadataAnnotation = <<>> => SubSeq(footer, 49, 56) = ZstdChunkedFrameMagic

\* C4 as stated: a declared length above 50 MiB always ends in the
\* manifest-too-big error, with no fetch but the footer's.
C4_AlwaysManifestTooBig ==
    (TooBigDeclared /\ Done) => (ret.err = "manifest too big" /\ ~HasRequest("batch"))

\* C4: a declared compressed or uncompressed length above 50 MiB makes the call
\* fail with no fetch but the footer's; the error is manifest-too-big when the
\* checks made before the size check pass (magic, annotations, type tag).
C4_TooBigNeverFetched ==
    TooBigDeclared =>
        /\ ~HasRequest("batch")
        /\ pc \notin {"z_manifest", "z_tarsplit", "z_drain"}
        /\ Done => ret.err # "nil"
        /\ (Done /\ ReachesSizeCheck) => ret.err = "manifest too big"

C4_Witness ==
    /\ TooBigDeclared /\ Done
    /\ length <= maxTocSize
    /\ HasRequest("footer")
    /\ ret.err = "manifest too big"

\* C5: in readEstargzChunkedManifest a derived compressed size or a declared
\* first-entry size above 50 MiB ends in the manifest-too-big error.
C5_TooBigReported ==
    (fn = "estargz" /\ Done /\ (size > maxTocSize \/ header.Size > maxTocSize))
        => ret.err = "manifest too big"

\* C6: a blob that does not exceed the footer size of the format fails with
\* blob too small, and nothing is requested from the source.
C6_BlobTooSmall ==
    \/ fn = "none"
    \/ blobSize > (IF fn = "zstd" THEN FooterSizeSupported ELSE EstargzFooterSize)
    \/ (Done /\ ret.err = "blob too small" /\ requests = <<>> /\ opened = {})

C6_Witness ==
    /\ fn = "zstd" /\ Done
    /\ blobSize = FooterSizeSupported
    /\ MetadataAnnotation # <<>>
    /\ ret.err = "blob too small"

\* C7: with the metadata annotation present the footer is never requested, and
\* the manifest range requested is the offset and length of the annotation.
C7_AnnotationAuthoritative ==
    (fn = "zstd" /\ MetadataAnnotation # <<>>) =>
        /\ ~HasRequest("footer")
        /\ footerStream = "none"
        /\ \A i \in DOMAIN requests :
              /\ SscanfOk(MetadataAnnotation, 4)
              /\ requests[i].chunks[1]
                    = [Offset |-> MetadataAnnotation[1], Length |-> MetadataAnnotation[2]]

C7_Witness ==
    /\ fn = "zstd" /\ Succeeded
    /\ MetadataAnnotation # <<>>
    /\ HasRequest("batch")
    /\ length # lengthUncompressed

\* the companion offset is zero, or its annotation is absent
NoCompanion ==
    /\ fn = "zstd"
    /\ \/ TarSplitInfoKey \notin DOMAIN annotations
       \/ SscanfOk(TarSplitAnnotation, 3) /\ TarSplitAnnotation[1] = 0

\* C8: without a companion the batched fetch holds the manifest range alone, no
\* outcome is read for a companion, and a successful call returns no companion
\* bytes.
C8_NoCompanion ==
    NoCompanion =>
        /\ \A i \in DOMAIN requests : Len(requests[i].chunks) = 1
        /\ pc # "z_tarsplit"
        /\ tarSplit = NoBytes /\ decodedTarSplit = NoBytes
        /\ Cardinality(opened) <= 1
        /\ Succeeded => ret.tarSplit = NoBytes

C8_Witness ==
    /\ NoCompanion /\ Succeeded
    /\ TarSplitInfoKey \in DOMAIN annotations
    /\ TarSplitChecksumKey \notin DOMAIN annotations
    /\ ret.manifest # NoBytes

\* the annotations carry companion metadata with a non-zero offset
HasCompanion ==
    /\ fn = "zstd"
    /\ TarSplitInfoKey \in DOMAIN annotations
    /\ SscanfOk(TarSplitAnnotation, 3)
    /\ TarSplitAnnotation[1] > 0

\* the companion range was requested and its bytes passed the validation
\* against the companion's checksum annotation
CompanionValidated ==
    /\ \E i \in DOMAIN requests :
          /\ requests[i].kind = "batch"
          /\ Len(requests[i].chunks) = 2
          /\ requests[i].chunks[2]
                = [Offset |-> TarSplitAnnotation[1], Length |-> TarSplitAnnotation[2]]
    /\ DigestParseOk(Lookup(annotations, TarSplitChecksumKey))
    /\ Digest("sha256", tarSplit) = Lookup(annotations, TarSplitChecksumKey)
    /\ Digest("sha256", manifest) = Lookup(annotations, ManifestChecksumKey)
    /\ ret.tarSplit = ZstdDecodeAll(tarSplit)

\* C9 as stated: whenever the annotations carry companion metadata, a call
\* succeeds only with the companion requested and validated.
C9_CompanionNeverIgnored ==
    (HasCompanion /\ Succeeded) => CompanionValidated

\* C9: when the metadata annotation is present and the annotations carry
\* companion metadata with a non-zero offset, the companion range is requested
\* with the manifest's, and a call succeeds only with the manifest and the
\* companion each validated against its own checksum annotation.
C9_CompanionValidated ==
    (HasCompanion /\ MetadataAnnotation # <<>>) =>
        /\ \A i \in DOMAIN requests : Len(requests[i].chunks) = 2
        /\ Succeeded => CompanionValidated
        /\ (Done /\ ~Succeeded) => ret.tarSplit = NoBytes

C9_Witness ==
    /\ HasCompanion /\ MetadataAnnotation # <<>> /\ Succeeded
    /\ Lookup(annotations, TarSplitChecksumKey) # Lookup(annotations, ManifestChecksumKey)
    /\ tarSplit # manifest

\* the footer was read in full and its bytes [48,56) are not the magic
FooterWithBadMagic ==
    /\ fn = "zstd"
    /\ footerStream # "none"
    /\ Len(footerData) >= FooterSizeSupported
    /\ SubSeq(footerData, 49, 56) # ZstdChunkedFrameMagic

\* C10: on the footer path a footer whose magic differs fails with the
\* invalid-magic error whatever its other fields hold, and no manifest range
\* is fetched.
C10_InvalidMagic ==
    FooterWithBadMagic =>
        /\ Done
        /\ ret.err = "invalid magic number"
        /\ ~HasRequest("batch")
        /\ Len(requests) = 1

C10_Witness ==
    /\ FooterWithBadMagic
    /\ manifestType = ManifestTypeCRFS
    /\ length <= maxTocSize /\ lengthUncompressed <= maxTocSize
    /\ ret.err = "invalid magic number"

\* the batched request of the native reader and the channel the source
\* returned for it
BatchChunks == requests[Len(requests)].chunks

BatchSent == sent[Len(sent)]

\* the source closed the channel of the batched request after fewer outcomes
\* than ranges, and the call has returned
EarlyClose ==
    /\ fn = "zstd" /\ Done
    /\ HasRequest("batch") /\ sent # <<>>
    /\ closes
    /\ Len(BatchSent) < Len(BatchChunks)

\* what reading and validating outcome i of the channel as the manifest gives
ManifestErrOf(ch) ==
    IF readBlobErr(ch, length) # "nil" THEN readBlobErr(ch, length)
    ELSE decodeAndValidateBlobErr(readBlob(ch, length), lengthUncompressed,
                                  Lookup(annotations, ManifestChecksumKey))

\* C11 as stated: after an early close the call fails with the stream-closed
\* error.
C11_AlwaysStreamClosed == EarlyClose => ret.err = "stream closed"

\* C11: after an early close the call never succeeds; its error is the
\* stream-closed error unless the one outcome delivered before the close had
\* already failed (error outcome, short stream, failed validation), and then
\* it is that failure.
C11_EarlyCloseFails ==
    EarlyClose =>
        /\ ret.err # "nil"
        /\ ret.manifest = NoBytes /\ ret.tarSplit = NoBytes
        /\ ret.err = IF BatchSent # <<>> /\ ManifestErrOf(BatchSent) # "nil"
                     THEN ManifestErrOf(BatchSent)
                     ELSE "stream closed"

C11_Witness ==
    /\ EarlyClose
    /\ Len(BatchChunks) = 2 /\ Len(BatchSent) = 1
    /\ decodedBlob # NoBytes
    /\ ret.err = "stream closed"

\* the source delivered both outcomes of a two-range request, and the call
\* has returned
BothDelivered ==
    /\ fn = "zstd" /\ Done
    /\ HasRequest("batch") /\ sent # <<>>
    /\ Len(BatchChunks) = 2 /\ Len(BatchSent) = 2

\* the outcome the source delivered for range r of the batched request
OutcomeOf(r) == BatchSent[CHOOSE i \in DOMAIN BatchSent : BatchSent[i].rng = r]

TarSplitErrOf(ch) ==
    IF readBlobErr(ch, lengthTarSplit) # "nil" THEN readBlobErr(ch, lengthTarSplit)
    ELSE decodeAndValidateBlobErr(readBlob(ch, lengthTarSplit), lengthUncompressedTarSplit,
                                  tarSplitChecksumAnnotation)

\* what the call returns when the manifest range's outcome is validated as
\* the manifest and the companion range's outcome as the companion
ResultByRange ==
    LET m == <<OutcomeOf(1)>>
        t == <<OutcomeOf(2)>>
    IN  IF ManifestErrOf(m) # "nil" THEN Failure(ManifestErrOf(m))
        ELSE IF TarSplitErrOf(t) # "nil" THEN Failure(TarSplitErrOf(t))
        ELSE Result(decodeAndValidateBlob(readBlob(m, length), lengthUncompressed,
                                          Lookup(annotations, ManifestChecksumKey)),
                    decodeAndValidateBlob(readBlob(t, lengthTarSplit),
                                          lengthUncompressedTarSplit,
                                          tarSplitChecksumAnnotation),
                    offset, "nil")

\* C12: with both ranges requested and both outcomes delivered, the result is
\* the one obtained by validating the manifest range's bytes as the manifest
\* and the companion range's bytes as the companion, whatever the order of
\* delivery.
C12_OrderIndependent == BothDelivered => ret = ResultByRange

\* an outcome of the gzip-family footer request failed: an error outcome, or a
\* stream that ends before the 51 bytes of the footer
FooterFetchFailed ==
    /\ fn = "estargz" /\ Len(sent) >= 1
    /\ \E i \in DOMAIN sent[1] :
            \/ sent[1][i].err # "nil"
            \/ ReadFullErr(sent[1][i].data, EstargzFooterSize) # "nil"

\* the archive entry of a stream ends before the size its header declares
TruncatedEntry(data) ==
    /\ data.gzip /\ data.entries # <<>>
    /\ ~ManifestTooBig(data.entries[1].Size)
    /\ ReadFullErr(data.entries[1].data, data.entries[1].Size) # "nil"

\* an outcome of the gzip-family manifest request failed: an error outcome, or
\* a truncated archive entry
ManifestFetchFailed ==
    /\ fn = "estargz" /\ Len(sent) >= 2
    /\ \E i \in DOMAIN sent[2] :
            \/ sent[2][i].err # "nil"
            \/ sent[2][i].err = "nil" /\ TruncatedEntry(sent[2][i].data)

\* C13: in the gzip-family reader a failed footer fetch is never followed by
\* the manifest request, and a call with a failed footer or manifest fetch
\* returns an error.
C13_FetchFailureTerminal ==
    /\ FooterFetchFailed => ~HasRequest("manifest")
    /\ (FooterFetchFailed \/ ManifestFetchFailed) /\ Done => ret.err # "nil"

\* an annotation that is there and is not n colon-separated unsigned integers
Unparsable(key, n) ==
    /\ key \in DOMAIN annotations
    /\ \/ Len(annotations[key]) < n
       \/ \E i \in 1..n : annotations[key][i] < 0

NoChecksumAnnotation == Lookup(annotations, ManifestChecksumKey) = EmptyString

FailedBeforeAnyRequest == Done /\ ret.err # "nil" /\ requests = <<>>

\* C14 as stated: a missing or empty checksum annotation, or a metadata or
\* tar-split annotation that does not parse, fails the call before any request.
C14_AnyBadAnnotation ==
    (/\ fn = "zstd"
     /\ \/ NoChecksumAnnotation
        \/ Unparsable(ManifestInfoKey, 4)
        \/ Unparsable(TarSplitInfoKey, 3))
    => FailedBeforeAnyRequest

\* C14: a missing or empty checksum annotation, a non-empty metadata
\* annotation that does not parse, or a tar-split annotation that does not
\* parse beside a non-empty metadata annotation, fails the call before any
\* request.
C14_BadAnnotationNoRequest ==
    (/\ fn = "zstd"
     /\ \/ NoChecksumAnnotation
        \/ /\ MetadataAnnotation # <<>>
           /\ Unparsable(ManifestInfoKey, 4) \/ Unparsable(TarSplitInfoKey, 3))
    => FailedBeforeAnyRequest

C14_Witness ==
    /\ fn = "zstd" /\ blobSize > FooterSizeSupported
    /\ ~NoChecksumAnnotation
    /\ ~Unparsable(ManifestInfoKey, 4)
    /\ Unparsable(TarSplitInfoKey, 3)
    /\ ret.err = "sscanf: input does not match format"
    /\ FailedBeforeAnyRequest

\* the call installed the deferred drain and has returned
DrainedAndDone ==
    /\ fn = "zstd" /\ Done
    /\ HasRequest("batch") /\ sent # <<>>

\* the error of the first error outcome of ch, if any
RECURSIVE FirstErr(_)
FirstErr(ch) ==
    IF ch = <<>> THEN "nil"
    ELSE IF Head(ch).err # "nil" THEN Head(ch).err
    ELSE FirstErr(Tail(ch))

\* the failures of the call in the order it meets them: the manifest's, the
\* companion's, the drain's
ManifestFailure == ManifestErrOf(BatchSent)

TarSplitFailure ==
    IF Len(BatchChunks) = 2 THEN TarSplitErrOf(Receive(BatchSent)) ELSE "nil"

DrainFailure ==
    FirstErr(IF Len(BatchChunks) = 2 THEN Receive(Receive(BatchSent)) ELSE Receive(BatchSent))

\* C15: the call returns the first failure it met; a good manifest followed
\* by an error outcome for the companion returns that outcome's error, and
\* the drain's error is returned only if the call met no failure before.
C15_FirstFailureKept ==
    DrainedAndDone =>
        /\ ManifestFailure # "nil" => ret.err = ManifestFailure
        /\ ManifestFailure = "nil" /\ TarSplitFailure # "nil" => ret.err = TarSplitFailure
        /\ (/\ Len(BatchChunks) = 2 /\ Len(BatchSent) = 2
            /\ ManifestFailure = "nil" /\ BatchSent[2].err # "nil")
           => ret.err = BatchSent[2].err
        /\ ManifestFailure = "nil" /\ TarSplitFailure = "nil" => ret.err = DrainFailure

\* a failed manifest followed by an error outcome that only the drain saw
C15_Witness ==
    /\ DrainedAndDone
    /\ Len(BatchSent) = 2
    /\ ManifestFailure = "invalid blob checksum"
    /\ BatchSent[2].err = "fetch failed"
    /\ drainErr = "fetch failed"
    /\ ret.err = "invalid blob checksum"

\* the kinds of the requests made so far, in order
Kinds == [i \in DOMAIN requests |-> requests[i].kind]

\* every range requested so far, by request and position
AllChunks ==
    {<<i, j>> : i \in DOMAIN requests, j \in 1..2} \cap
    {x \in (DOMAIN requests) \X (1..2) : x[2] <= Len(requests[x[1]].chunks)}

NoRangeTwice ==
    \A x, y \in AllChunks :
        x # y => requests[x[1]].chunks[x[2]] # requests[y[1]].chunks[y[2]]

\* the native reader: at most a footer request, only without a metadata
\* annotation, then at most one batched request, manifest first
ZstdSequencing ==
    fn = "zstd" =>
        /\ Kinds \in {<<>>, <<"footer">>, <<"footer", "batch">>, <<"batch">>}
        /\ HasRequest("footer") => MetadataAnnotation = <<>>
        /\ Kinds = <<"batch">> => MetadataAnnotation # <<>>
        /\ HasRequest("batch") =>
              /\ BatchChunks[1] = ImageSourceChunk(offset, length)
              /\ Len(BatchChunks) = 2 =>
                    BatchChunks[2] = ImageSourceChunk(offsetTarSplit, lengthTarSplit)
        /\ (footerStream # "none" /\ Len(footerData) < FooterSizeSupported)
              => ~HasRequest("batch")

EstargzSequencing ==
    fn = "estargz" => Kinds \in {<<>>, <<"footer">>, <<"footer", "manifest">>}

\* C16: the requests of a call follow the fixed sequence, no range is
\* requested twice, and no request follows a failed fetch.
C16_FetchSequencing ==
    /\ ZstdSequencing
    /\ EstargzSequencing
    /\ NoRangeTwice
    /\ FooterFetchFailed => ~HasRequest("manifest")

\* C17: on the footer path the stream delivered for the footer range has been
\* closed by the time the call returns.
C17_FooterStreamClosed ==
    (fn = "zstd" /\ Done /\ footerStream # "none") => footerStream = "closed"

\* a range inside the blob; an unsigned field whose conversion wrapped around
\* shows as a negative number
InsideBlob(c) ==
    /\ c.Offset >= 0
    /\ c.Length >= 0
    /\ c.Offset + c.Length <= blobSize

\* C18: every range requested from the source lies inside the blob and no
\* offset or length has wrapped around.
C18_RangesInsideBlob ==
    \A i \in DOMAIN requests :
        \A j \in DOMAIN requests[i].chunks : InsideBlob(requests[i].chunks[j])

\* C19: once the native reader fetches, every length it requests a range
\* with, allocates a receive buffer of, or pre-sizes a decode buffer with is
\* at most 50 MiB, for the manifest and for the companion.
C19_CeilingBoundsAll ==
    (fn = "zstd" /\ HasRequest("batch")) =>
        /\ \A j \in DOMAIN BatchChunks : BatchChunks[j].Length <= maxTocSize
        /\ length <= maxTocSize /\ lengthUncompressed <= maxTocSize
        /\ Len(BatchChunks) = 2 =>
              /\ lengthTarSplit <= maxTocSize
              /\ lengthUncompressedTarSplit <= maxTocSize

\* C20: if the source closes every channel it returns once its outcomes are
\* received, the call eventually returns.
C20_Terminates == <>(Done \/ ~closes)

\* a call that failed on its first outcome, drained the second and returned
C20_Witness ==
    /\ DrainedAndDone /\ closes
    /\ Len(BatchSent) = 2
    /\ ManifestFailure # "nil"
    /\ chan = <<>>
    /\ ret.err = ManifestFailure

====
